---- MODULE Spec2Model ----
\* Formal LaTeX editor backend (backend/server.py, backend/database.py,
\* backend/models.py): the MongoDB collections, the startup sequence
\* (lifespan: connect_to_mongo, create_indexes, initialize_templates) and the
\* HTTP handlers, one action per handler.
\*
\* Conventions:
\*  - a Python Optional value is a set with at most one element ({} is None);
\*  - a Python dict with string keys and values is a set of <<key, value>> pairs;
\*  - a str(uuid.uuid4()) value is a positive integer, 0 is a string that is no
\*    generated id;
\*  - datetime values are integers read from a clock that never runs backwards;
\*    every utcnow() call is a read of its own, so the created_at and the
\*    updated_at of one DocumentModel construction may differ;
\*  - a store call that raises is an input (fault) of the action that makes it;
\*  - a handler that builds a record and then awaits insert_one is two steps,
\*    the build and the insert: other requests run while the insert is awaited;
\*  - resp is the response the latest step sent, NoResp when it sent none.
EXTENDS Integers, Sequences, FiniteSets, TLC

VARIABLES phase, failures, indexes, templates, seedLog, documents,
          chat_messages, clock, uuid, resp, issued, pristine, creating,
          chatting

vars == <<phase, failures, indexes, templates, seedLog, documents,
          chat_messages, clock, uuid, resp, issued, pristine, creating,
          chatting>>

\* ------------------------------------------------------------------ bounds

MaxUuid == 2
MaxClock == 1
MaxSkip == 1
MaxLimit == 2

\* --------------------------------------------------------- generic helpers

Range(s) == {s[i] : i \in 1..Len(s)}

Min(a, b) == IF a < b THEN a ELSE b

RECURSIVE SelectSeqBy(_, _, _)
\* The subsequence of s whose elements have field k equal to v, in s's order.
SelectSeqBy(s, k, v) ==
    IF s = <<>> THEN <<>>
    ELSE IF Head(s)[k] = v THEN <<Head(s)>> \o SelectSeqBy(Tail(s), k, v)
         ELSE SelectSeqBy(Tail(s), k, v)

\* All orderings of the elements of sequence s (as sequences of the same length).
Perms(s) ==
    {[i \in 1..Len(s) |-> s[p[i]]] :
        p \in {q \in [1..Len(s) -> 1..Len(s)] :
                 \A i, j \in 1..Len(s) : i # j => q[i] # q[j]}}

\* s[a..b] clipped to s.
Window(s, skip, limit) ==
    SubSeq(s, Min(skip, Len(s)) + 1, Min(skip + limit, Len(s)))

\* ------------------------------------------------ names bound in server.py

\* The module-level names of server.py: its imports and its own definitions.
ServerGlobals ==
    {"FastAPI", "HTTPException", "Depends", "CORSMiddleware", "JSONResponse",
     "asynccontextmanager", "os", "load_dotenv", "logging", "List", "Optional",
     "DocumentModel", "TemplateModel", "ChatMessage", "DocumentCreate",
     "DocumentUpdate", "ChatRequest", "connect_to_mongo",
     "close_mongo_connection", "get_collection", "logger", "lifespan", "app",
     "initialize_templates", "health_check", "create_document", "get_documents",
     "get_document", "update_document", "delete_document", "get_templates",
     "get_template", "chat_with_ai", "get_template_categories"}

\* Evaluating a global name of server.py raises NameError unless it is bound.
NameBound(name) == name \in ServerGlobals

\* ------------------------------------------------------------ store client

\* The index statements of create_indexes, in order.
IndexStatements ==
    <<"documents.id", "documents.created_at", "documents.tags",
      "templates.id", "templates.category", "templates.is_builtin",
      "chat_messages.document_id", "chat_messages.timestamp">>

\* The indexes declared unique=True.
UniqueIndexes == {"documents.id", "templates.id"}

\* create_indexes: one try block around all statements; the statement failAt
\* (0: none) raises, the ones before it have been created, the ones after it
\* are never issued, and the exception is logged as a warning.
CreateIndexes(existing, failAt) ==
    existing \cup
      {IndexStatements[i] :
         i \in 1..(IF failAt = 0 THEN Len(IndexStatements) ELSE failAt - 1)}

\* insert_one(doc) into collection coll: raises (FALSE) on a store fault and on
\* a duplicate id under a unique id index.
InsertOk(coll, idIndex, doc, fault) ==
    /\ ~fault
    /\ ~(/\ idIndex \in UniqueIndexes \cap indexes
         /\ \E i \in 1..Len(coll) : coll[i].id = doc.id)

InsertOne(coll, idIndex, doc, fault) ==
    IF InsertOk(coll, idIndex, doc, fault) THEN Append(coll, doc) ELSE coll

\* ------------------------------------------------------ built-in templates

\* builtin_templates of initialize_templates, in list order (content omitted).
BuiltinTemplates ==
    <<[id |-> "template_article", name |-> "Academic Article",
       category |-> "academic", is_builtin |-> TRUE],
      [id |-> "template_report", name |-> "Business Report",
       category |-> "business", is_builtin |-> TRUE],
      [id |-> "template_presentation", name |-> "Presentation Slides",
       category |-> "presentation", is_builtin |-> TRUE],
      [id |-> "template_math", name |-> "Mathematical Document",
       category |-> "academic", is_builtin |-> TRUE],
      [id |-> "template_letter", name |-> "Formal Letter",
       category |-> "business", is_builtin |-> TRUE]>>

\* count_documents({"is_builtin": True})
CountBuiltin(coll) == Cardinality({i \in 1..Len(coll) : coll[i].is_builtin})

RECURSIVE SeedLoopAbort(_, _, _)
\* Variant: the first insert that raises ends the loop.
SeedLoopAbort(coll, i, faults) ==
    IF i > Len(BuiltinTemplates) THEN [coll |-> coll, log |-> <<>>]
    ELSE LET ok == InsertOk(coll, "templates.id", BuiltinTemplates[i], faults[i])
         IN  IF ~ok THEN [coll |-> coll, log |-> <<[pos |-> i, ok |-> FALSE]>>]
             ELSE LET rest == SeedLoopAbort(Append(coll, BuiltinTemplates[i]),
                                            i + 1, faults)
                  IN  [coll |-> rest.coll,
                       log |-> <<[pos |-> i, ok |-> TRUE]>> \o rest.log]

RECURSIVE SeedLoop(_, _, _)
\* The insert loop of initialize_templates from list position i on: every
\* template is tried once, an insert that raises is logged and skipped.
\* Returns the collection and the log of <<position, inserted>> pairs.
SeedLoop(coll, i, faults) ==
    IF i > Len(BuiltinTemplates) THEN [coll |-> coll, log |-> <<>>]
    ELSE LET ok   == InsertOk(coll, "templates.id", BuiltinTemplates[i], faults[i])
             rest == SeedLoop(InsertOne(coll, "templates.id", BuiltinTemplates[i],
                                        faults[i]),
                              i + 1, faults)
         IN  [coll |-> rest.coll, log |-> <<[pos |-> i, ok |-> ok]>> \o rest.log]

\* Variant: the seeding never returns early.
SeedSkippedNever(coll) == FALSE

\* The early return of initialize_templates.
SeedSkipped(coll) == CountBuiltin(coll) > 0

\* ------------------------------------------------------------- responses

NoResp ==
    [op |-> "none", status |-> 0, fault |-> FALSE, detail |-> "", id |-> 0,
     skip |-> 0, limit |-> 0, category |-> {}, docs |-> <<>>, tmpls |-> <<>>,
     message |-> "", suggestions |-> <<>>, chat |-> {}, create |-> {},
     update |-> {}]

\* ---------------------------------------------------------------- startup

Init ==
    /\ phase = "down"
    /\ failures = {}
    /\ indexes = {}
    /\ templates = <<>>
    /\ seedLog = <<>>
    /\ documents = <<>>
    /\ chat_messages = <<>>
    /\ clock = 0
    /\ uuid = 0
    /\ resp = NoResp
    /\ issued = {}
    /\ pristine = {}
    /\ creating = {}
    /\ chatting = {}

\* Variant: the except block logs a failed ping without re-raising it.
ConnectOutcomeSwallowed(connectFails, pingFails) ==
    IF connectFails THEN "aborted" ELSE "connected"

\* The try block of connect_to_mongo: an exception of the client construction
\* or of the ping is logged and re-raised, which ends lifespan before
\* initialize_templates and before the application serves.
ConnectOutcome(connectFails, pingFails) ==
    IF connectFails \/ pingFails THEN "aborted" ELSE "connected"

\* connect_to_mongo, called first by lifespan; when the connection stands,
\* create_indexes runs and swallows its own failure. The ping is not attempted
\* when the client construction raised.
ConnectToMongo ==
    /\ phase = "down"
    /\ \E connectFails, pingFails \in BOOLEAN, failAt \in 0..Len(IndexStatements) :
         LET outcome == ConnectOutcome(connectFails, pingFails)
             raised  == IF connectFails THEN {"connect"}
                        ELSE IF pingFails THEN {"ping"} ELSE {}
         IN  /\ phase' = outcome
             /\ IF outcome = "aborted"
                THEN /\ failures' = failures \cup raised
                     /\ UNCHANGED indexes
                ELSE /\ indexes' = CreateIndexes(indexes, failAt)
                     /\ failures' = failures \cup raised \cup
                          (IF failAt # 0 THEN {"index"} ELSE {})
    /\ UNCHANGED <<templates, seedLog, documents, chat_messages, clock, uuid,
                   resp, issued, pristine, creating, chatting>>

\* initialize_templates, called by lifespan after connect_to_mongo returned.
\* count_documents is outside any try block: its failure aborts startup.
InitializeTemplates ==
    /\ phase = "connected"
    /\ \E countFails \in BOOLEAN, faults \in [1..Len(BuiltinTemplates) -> BOOLEAN] :
         IF countFails
         THEN /\ phase' = "aborted"
              /\ failures' = failures \cup {"count"}
              /\ seedLog' = <<>>
              /\ UNCHANGED templates
         ELSE IF SeedSkipped(templates)
         THEN /\ phase' = "serving"
              /\ seedLog' = <<>>
              /\ UNCHANGED <<templates, failures>>
         ELSE LET run == SeedLoop(templates, 1, faults)
              IN  /\ phase' = "serving"
                  /\ templates' = run.coll
                  /\ seedLog' = run.log
                  /\ failures' = failures \cup
                       (IF \E i \in 1..Len(run.log) : ~run.log[i].ok
                        THEN {"insert"} ELSE {})
    /\ UNCHANGED <<indexes, documents, chat_messages, clock, uuid, resp,
                   issued, pristine, creating, chatting>>

\* The process ends (after an aborted startup, or the lifespan's shutdown) and
\* is started again against the same database; requests still awaiting the
\* store end with the process.
Restart ==
    /\ phase \in {"aborted", "serving"}
    /\ phase' = "down"
    /\ failures' = {}
    /\ seedLog' = <<>>
    /\ resp' = NoResp
    /\ creating' = {}
    /\ chatting' = {}
    /\ UNCHANGED <<indexes, templates, documents, chat_messages, clock, uuid,
                   issued, pristine>>

\* ------------------------------------------------------- sorting in the store

\* Python and MongoDB compare strings code point by code point. The template
\* names of this program differ in their first character, whose code point
\* therefore decides the comparison.
FirstCodePoint(name) ==
    CASE name = "Academic Article" -> 65
      [] name = "Business Report" -> 66
      [] name = "Formal Letter" -> 70
      [] name = "Mathematical Document" -> 77
      [] name = "Presentation Slides" -> 80

RECURSIVE SortedOrders(_, _, _)
\* cursor.sort: every ordering of the elements of coll at the positions I in
\* ascending order of key[position]; the order among equal keys is not
\* specified by the store.
SortedOrders(coll, I, key) ==
    IF I = {} THEN {<<>>}
    ELSE UNION {{<<coll[i]>> \o r : r \in SortedOrders(coll, I \ {i}, key)} :
                  i \in {j \in I : \A k \in I : key[j] <= key[k]}}

\* sort("created_at", -1): descending.
CreatedAtDescKey(coll) == [i \in DOMAIN coll |-> 0 - coll[i].created_at]

\* sort("name", 1): ascending.
NameAscKey(coll) == [i \in DOMAIN coll |-> FirstCodePoint(coll[i].name)]

\* Variant: skip and limit cut the stored order, and the cut is then sorted.
FindDocumentsWindowFirst(coll, skip, limit) ==
    LET cut == Window(coll, skip, limit)
    IN  SortedOrders(cut, DOMAIN cut, CreatedAtDescKey(cut))

\* find().skip(skip).limit(limit).sort("created_at", -1) with to_list(limit):
\* the cursor's options are sent together, the store sorts, then skips, then
\* limits, whatever the order of the calls that set them.
FindDocuments(coll, skip, limit) ==
    {Window(p, skip, limit) : p \in SortedOrders(coll, DOMAIN coll, CreatedAtDescKey(coll))}

\* Variant: the category is never put into the query.
TemplateQueryNoFilter(category) == {}

\* if category: query["category"] = category
\* None and the empty string are both falsy: no filter.
TemplateQuery(category) ==
    IF category = {} \/ category = {""} THEN {} ELSE category

\* find(query).sort("name", 1) with to_list(None)
FindTemplates(coll, category) ==
    LET q       == TemplateQuery(category)
        matched == IF q = {} THEN coll
                   ELSE SelectSeqBy(coll, "category", CHOOSE c \in q : TRUE)
    IN  SortedOrders(matched, DOMAIN matched, NameAscKey(matched))

\* --------------------------------------------------------- domain records

The(opt) == CHOOSE x \in opt : TRUE

\* Variant: the tags of the payload are not carried over.
DocumentCreateDictNoTags(p) ==
    [title |-> p.title,
     content |-> IF p.content = {} THEN "" ELSE The(p.content),
     template_id |-> p.template_id,
     tags |-> <<>>]

\* DocumentCreate(...).dict(): the defaults of the omitted fields filled in.
DocumentCreateDict(p) ==
    [title |-> p.title,
     content |-> IF p.content = {} THEN "" ELSE The(p.content),
     template_id |-> p.template_id,
     tags |-> IF p.tags = {} THEN <<>> ELSE The(p.tags)]

\* Variant: the generator hands out its latest value again.
Uuid4Repeated == IF uuid = 0 THEN 1 ELSE uuid

\* default_factory=lambda: str(uuid.uuid4()): a value never generated before.
Uuid4 == uuid + 1

\* DocumentModel(**d): generated id, created_at, updated_at; default flags.
DocumentModel(d, id, createdAt, updatedAt) ==
    [id |-> id, title |-> d.title, content |-> d.content,
     template_id |-> d.template_id, created_at |-> createdAt,
     updated_at |-> updatedAt, tags |-> d.tags, is_public |-> FALSE,
     metadata |-> {}]

\* find_one({"id": id}): the first match, or None.
FindOne(coll, id) ==
    LET hits == {i \in 1..Len(coll) : coll[i].id = id}
    IN  IF hits = {} THEN {}
        ELSE {coll[CHOOSE i \in hits : \A j \in hits : i <= j]}

\* {k: v for k, v in update_data.dict().items() if v is not None}, then
\* update_one({"id": id}, {"$set": update_dict}) on the first match.
ApplyUpdate(doc, upd, now) ==
    [doc EXCEPT
       !.title = IF upd.title = {} THEN @ ELSE The(upd.title),
       !.content = IF upd.content = {} THEN @ ELSE The(upd.content),
       !.tags = IF upd.tags = {} THEN @ ELSE The(upd.tags),
       !.metadata = IF upd.metadata = {} THEN @ ELSE The(upd.metadata),
       !.updated_at = now]

UpdateOne(coll, id, upd, now) ==
    LET hits == {i \in 1..Len(coll) : coll[i].id = id}
        first == CHOOSE i \in hits : \A j \in hits : i <= j
    IN  IF hits = {} THEN coll
        ELSE [coll EXCEPT ![first] = ApplyUpdate(@, upd, now)]

\* delete_one({"id": id}): removes the first match.
DeleteOne(coll, id) ==
    LET hits == {i \in 1..Len(coll) : coll[i].id = id}
        first == CHOOSE i \in hits : \A j \in hits : i <= j
    IN  IF hits = {} THEN coll
        ELSE SubSeq(coll, 1, first - 1) \o SubSeq(coll, first + 1, Len(coll))

\* The placeholder answer of chat_with_ai.
ChatResponse ==
    [message |-> "AI integration coming soon! This is a placeholder response.",
     suggestions |->
       <<"Try adding some mathematical equations with \\begin{equation}",
         "Consider using \\section{} to organize your content",
         "Use \\textbf{} for bold text and \\textit{} for italic text">>]

\* str(response): Python's repr of the dict (single quotes, backslashes doubled).
StrOfChatResponse ==
    "{'message': 'AI integration coming soon! This is a placeholder response.', "
    \o "'suggestions': ['Try adding some mathematical equations with "
    \o "\\\\begin{equation}', 'Consider using \\\\section{} to organize your "
    \o "content', 'Use \\\\textbf{} for bold text and \\\\textit{} for italic text']}"

\* Variant: the supplied context is not stored.
ChatMessageOfNoContext(req, id, now) ==
    [id |-> id, document_id |-> req.document_id, message |-> req.message,
     response |-> StrOfChatResponse, timestamp |-> now, context |-> {}]

\* ChatMessage(document_id=..., message=..., response=str(response),
\*             context=chat_request.context or {})
ChatMessageOf(req, id, now) ==
    [id |-> id, document_id |-> req.document_id, message |-> req.message,
     response |-> StrOfChatResponse, timestamp |-> now,
     context |-> IF req.context = {} THEN {} ELSE The(req.context)]

\* ------------------------------------------------------------ request inputs

CreatePayloads ==
    {[title |-> "A", content |-> {}, template_id |-> {}, tags |-> {}],
     [title |-> "B", content |-> {"x"}, template_id |-> {"template_article"},
      tags |-> {<<"t2", "t1">>}]}

UpdateBodies ==
    {[title |-> {}, content |-> {}, tags |-> {}, metadata |-> {}],
     [title |-> {"New"}, content |-> {}, tags |-> {}, metadata |-> {}],
     [title |-> {}, content |-> {""}, tags |-> {<<>>},
      metadata |-> {{<<"k", "v">>}}]}

ChatRequests ==
    {[document_id |-> d, message |-> m, context |-> c] :
       d \in {0, 1}, m \in {"hi"}, c \in {{}, {{}}, {{<<"k", "v">>}}}}

Categories == {{}, {""}, {"academic"}, {"business"}, {"presentation"}, {"personal"}}

DocumentIds == 0..MaxUuid

DefaultSkip == 0
DefaultLimit == 20

\* --------------------------------------------------------------- handlers

\* POST /api/documents, up to the awaited insert_one: the DocumentModel is
\* built, its id generated and its created_at and updated_at read from the
\* clock one after the other.
CreateDocumentBuild ==
    /\ phase = "serving"
    /\ uuid < MaxUuid
    /\ \E p \in CreatePayloads, d1, d2 \in 0..1 :
         LET doc == DocumentModel(DocumentCreateDict(p), Uuid4,
                                  clock + d1, clock + d1 + d2)
         IN  /\ clock + d1 + d2 <= MaxClock
             /\ clock' = clock + d1 + d2
             /\ uuid' = uuid + 1
             /\ creating' = creating \cup {[doc |-> doc, payload |-> p]}
             /\ resp' = NoResp
    /\ UNCHANGED <<phase, failures, indexes, templates, seedLog, documents,
                   chat_messages, issued, pristine, chatting>>

\* POST /api/documents, from the completion of insert_one on: the record is
\* stored and returned, or the exception is answered with 500.
CreateDocumentInsert ==
    /\ phase = "serving"
    /\ \E c \in creating, fault \in BOOLEAN :
         LET ok == InsertOk(documents, "documents.id", c.doc, fault)
         IN  /\ creating' = creating \ {c}
             /\ documents' = InsertOne(documents, "documents.id", c.doc, fault)
             /\ resp' = IF ok
                        THEN [NoResp EXCEPT !.op = "create", !.status = 200,
                                !.docs = <<c.doc>>, !.id = c.doc.id,
                                !.create = {c.payload}]
                        ELSE [NoResp EXCEPT !.op = "create", !.status = 500,
                                !.fault = fault, !.create = {c.payload},
                                !.detail = "Failed to create document"]
             /\ issued' = IF ok THEN issued \cup {c.doc.id} ELSE issued
             /\ pristine' = IF ok
                            THEN pristine \cup {[id |-> c.doc.id, payload |-> c.payload]}
                            ELSE pristine
    /\ UNCHANGED <<phase, failures, indexes, templates, seedLog, chat_messages,
                   clock, uuid, chatting>>

\* POST /api/documents
CreateDocument == CreateDocumentBuild \/ CreateDocumentInsert

\* GET /api/documents?skip&limit
GetDocuments ==
    /\ phase = "serving"
    /\ \E skip \in (0..MaxSkip) \cup {DefaultSkip},
          limit \in (1..MaxLimit) \cup {DefaultLimit}, fault \in BOOLEAN :
         IF fault
         THEN resp' = [NoResp EXCEPT !.op = "list", !.status = 500,
                         !.fault = TRUE, !.skip = skip, !.limit = limit,
                         !.detail = "Failed to fetch documents"]
         ELSE \E found \in FindDocuments(documents, skip, limit) :
                resp' = [NoResp EXCEPT !.op = "list", !.status = 200,
                           !.skip = skip, !.limit = limit, !.docs = found]
    /\ UNCHANGED <<phase, failures, indexes, templates, seedLog, documents,
                   chat_messages, clock, uuid, issued, pristine, creating,
                   chatting>>

\* GET /api/documents/{document_id}
GetDocument ==
    /\ phase = "serving"
    /\ \E id \in DocumentIds, fault \in BOOLEAN :
         LET document == FindOne(documents, id)
         IN  resp' = IF fault
                     THEN [NoResp EXCEPT !.op = "get", !.status = 500,
                             !.fault = TRUE, !.id = id,
                             !.detail = "Failed to fetch document"]
                     ELSE IF document = {}
                     THEN [NoResp EXCEPT !.op = "get", !.status = 404, !.id = id,
                             !.detail = "Document not found"]
                     ELSE [NoResp EXCEPT !.op = "get", !.status = 200, !.id = id,
                             !.docs = <<The(document)>>]
    /\ UNCHANGED <<phase, failures, indexes, templates, seedLog, documents,
                   chat_messages, clock, uuid, issued, pristine, creating,
                   chatting>>

\* PUT /api/documents/{document_id}
\* update_dict["updated_at"] = datetime.utcnow() evaluates the global name
\* datetime of server.py before any store call; an unbound name raises
\* NameError inside the try block, which the handler answers with 500.
UpdateDocument ==
    /\ phase = "serving"
    /\ \E id \in DocumentIds, upd \in UpdateBodies :
         LET base    == [NoResp EXCEPT !.op = "update", !.id = id, !.update = {upd}]
             matched == FindOne(documents, id) # {}
         IN  /\ IF ~NameBound("datetime")
                THEN /\ resp' = [base EXCEPT !.status = 500,
                                   !.detail = "Failed to update document"]
                     /\ UNCHANGED <<documents, clock, pristine>>
                ELSE \E d \in 0..1, fault \in BOOLEAN :
                     LET after == UpdateOne(documents, id, upd, clock + d)
                     IN
                     /\ clock + d <= MaxClock
                     /\ clock' = clock + d
                     /\ IF fault
                        THEN /\ resp' = [base EXCEPT !.status = 500,
                                           !.fault = TRUE,
                                           !.detail = "Failed to update document"]
                             /\ UNCHANGED <<documents, pristine>>
                        ELSE IF ~matched
                        THEN /\ resp' = [base EXCEPT !.status = 404,
                                           !.detail = "Document not found"]
                             /\ UNCHANGED <<documents, pristine>>
                        ELSE /\ documents' = after
                             /\ pristine' = {c \in pristine : c.id # id}
                             /\ resp' = [base EXCEPT !.status = 200,
                                           !.docs = <<The(FindOne(after, id))>>]
    /\ UNCHANGED <<phase, failures, indexes, templates, seedLog, chat_messages,
                   uuid, issued, creating, chatting>>

\* DELETE /api/documents/{document_id}
DeleteDocument ==
    /\ phase = "serving"
    /\ \E id \in DocumentIds, fault \in BOOLEAN :
         LET base == [NoResp EXCEPT !.op = "delete", !.id = id, !.fault = fault]
         IN  IF fault
             THEN /\ resp' = [base EXCEPT !.status = 500,
                                !.detail = "Failed to delete document"]
                  /\ UNCHANGED <<documents, pristine>>
             ELSE IF FindOne(documents, id) = {}
             THEN /\ resp' = [base EXCEPT !.status = 404,
                                !.detail = "Document not found"]
                  /\ UNCHANGED <<documents, pristine>>
             ELSE /\ documents' = DeleteOne(documents, id)
                  /\ pristine' = {c \in pristine : c.id # id}
                  /\ resp' = [base EXCEPT !.status = 200,
                                !.detail = "Document deleted successfully"]
    /\ UNCHANGED <<phase, failures, indexes, templates, seedLog, chat_messages,
                   clock, uuid, issued, creating, chatting>>

\* GET /api/templates?category
GetTemplates ==
    /\ phase = "serving"
    /\ \E category \in Categories, fault \in BOOLEAN :
         IF fault
         THEN resp' = [NoResp EXCEPT !.op = "templates", !.status = 500,
                         !.fault = TRUE, !.category = category,
                         !.detail = "Failed to fetch templates"]
         ELSE \E found \in FindTemplates(templates, category) :
                resp' = [NoResp EXCEPT !.op = "templates", !.status = 200,
                           !.category = category, !.tmpls = found]
    /\ UNCHANGED <<phase, failures, indexes, templates, seedLog, documents,
                   chat_messages, clock, uuid, issued, pristine, creating,
                   chatting>>

\* POST /api/chat, up to the awaited insert_one: the fixed response and the
\* ChatMessage (generated id, timestamp read from the clock) are built.
ChatWithAiBuild ==
    /\ phase = "serving"
    /\ uuid < MaxUuid
    /\ \E req \in ChatRequests, d \in 0..1 :
         /\ clock + d <= MaxClock
         /\ clock' = clock + d
         /\ uuid' = uuid + 1
         /\ chatting' = chatting \cup
              {[msg |-> ChatMessageOf(req, Uuid4, clock + d), req |-> req]}
         /\ resp' = NoResp
    /\ UNCHANGED <<phase, failures, indexes, templates, seedLog, documents,
                   chat_messages, issued, pristine, creating>>

\* POST /api/chat, from the completion of insert_one on: the fixed response is
\* returned, or the exception is answered with 500.
ChatWithAiInsert ==
    /\ phase = "serving"
    /\ \E c \in chatting, fault \in BOOLEAN :
         LET ok == InsertOk(chat_messages, "chat_messages.id", c.msg, fault)
         IN  /\ chatting' = chatting \ {c}
             /\ chat_messages' = InsertOne(chat_messages, "chat_messages.id",
                                           c.msg, fault)
             /\ resp' = IF ok
                        THEN [NoResp EXCEPT !.op = "chat", !.status = 200,
                                !.chat = {c.req},
                                !.message = ChatResponse.message,
                                !.suggestions = ChatResponse.suggestions]
                        ELSE [NoResp EXCEPT !.op = "chat", !.status = 500,
                                !.fault = fault, !.chat = {c.req},
                                !.detail = "Chat service temporarily unavailable"]
    /\ UNCHANGED <<phase, failures, indexes, templates, seedLog, documents,
                   clock, uuid, issued, pristine, creating>>

\* POST /api/chat
ChatWithAi == ChatWithAiBuild \/ ChatWithAiInsert

\* ---------------------------------------------------------- specifications

\* Startup, restarts against the same database, and the template listing.
StartupNext == ConnectToMongo \/ InitializeTemplates \/ Restart \/ GetTemplates

SpecStartup == Init /\ [][StartupNext]_vars

\* A process serving requests after a startup on an empty database in which
\* every index statement succeeded, or the first one failed, and the seeding
\* inserted the five built-in templates.
InitApi ==
    /\ phase = "serving"
    /\ \E failAt \in 0..1 :
         /\ indexes = CreateIndexes({}, failAt)
         /\ failures = IF failAt # 0 THEN {"index"} ELSE {}
    /\ templates = BuiltinTemplates
    /\ seedLog = [i \in 1..Len(BuiltinTemplates) |-> [pos |-> i, ok |-> TRUE]]
    /\ documents = <<>>
    /\ chat_messages = <<>>
    /\ clock = 0
    /\ uuid = 0
    /\ resp = NoResp
    /\ issued = {}
    /\ pristine = {}
    /\ creating = {}
    /\ chatting = {}

\* The routes of a single document.
ApiNext ==
    \/ CreateDocument
    \/ GetDocument
    \/ UpdateDocument
    \/ DeleteDocument

SpecApi == InitApi /\ [][ApiNext]_vars

\* The listing route, beside the routes that change what it lists.
ListNext == GetDocuments \/ CreateDocument \/ DeleteDocument

SpecList == InitApi /\ [][ListNext]_vars

\* The chat route, beside the creation of the documents that its document_id
\* may or may not name.
ChatNext == ChatWithAi \/ CreateDocument

SpecChat == InitApi /\ [][ChatNext]_vars

\* The whole program.
Next == StartupNext \/ ApiNext \/ GetDocuments \/ ChatWithAi

Spec == Init /\ [][Next]_vars

\* ------------------------------------------------------------------ claims

Max(a, b) == IF a > b THEN a ELSE b

\* The number of positions of s holding x.
Count(s, x) == Cardinality({i \in 1..Len(s) : s[i] = x})

IdsOf(coll) == [i \in 1..Len(coll) |-> coll[i].id]

RemoveAt(s, k) == SubSeq(s, 1, k - 1) \o SubSeq(s, k + 1, Len(s))

\* C1: for an id that no stored document has, PUT and DELETE
\* /api/documents/{id} both answer 404 and leave the documents unchanged
\* (stated for requests whose store calls do not fail).
C1_MissingIdIs404 ==
    [][(/\ resp'.op \in {"update", "delete"}
        /\ ~resp'.fault
        /\ FindOne(documents, resp'.id) = {})
       => (resp'.status = 404 /\ documents' = documents)]_vars

\* C2: PUT on a stored document answers 200, sets exactly the supplied fields
\* and a strictly greater updated_at, keeps every other field, and returns the
\* stored post-update record.
C2_UpdateSetsSuppliedFields ==
    [][(/\ resp'.op = "update"
        /\ ~resp'.fault
        /\ FindOne(documents, resp'.id) # {})
       => LET old == The(FindOne(documents, resp'.id))
              upd == The(resp'.update)
          IN  /\ resp'.status = 200
              /\ FindOne(documents', resp'.id) # {}
              /\ LET new == The(FindOne(documents', resp'.id))
                 IN  /\ new.title = IF upd.title = {} THEN old.title
                                    ELSE The(upd.title)
                     /\ new.content = IF upd.content = {} THEN old.content
                                      ELSE The(upd.content)
                     /\ new.tags = IF upd.tags = {} THEN old.tags
                                   ELSE The(upd.tags)
                     /\ new.metadata = IF upd.metadata = {} THEN old.metadata
                                       ELSE The(upd.metadata)
                     /\ new.id = old.id
                     /\ new.created_at = old.created_at
                     /\ new.template_id = old.template_id
                     /\ new.is_public = old.is_public
                     /\ new.updated_at > old.updated_at
                     /\ resp'.docs = <<new>>]_vars

\* C3: over any number of startups against the same database the templates
\* collection never holds more than 5 builtin-flagged templates, and a run of
\* initialize_templates that starts with a builtin-flagged template stored
\* leaves the collection as it is.
C3_SeedingIdempotent ==
    /\ CountBuiltin(templates) <= 5
    /\ [][/\ CountBuiltin(templates') <= 5
          /\ (phase = "connected" /\ CountBuiltin(templates) > 0)
               => templates' = templates]_vars

\* C3 witness: a restarted process found built-in templates and skipped the
\* seeding.
C3_Witness ==
    /\ phase = "serving"
    /\ seedLog = <<>>
    /\ CountBuiltin(templates) \in 1..4

\* C4: a GET of the id a successful POST returned, before any update or delete
\* changed the document of that id, answers 200 with the title, content and
\* tags of the payload, content "" and no tags where the payload omitted them
\* (stated for a GET whose store call does not fail).
C4_CreateGetRoundTrip ==
    \A c \in pristine :
      (resp.op = "get" /\ ~resp.fault /\ resp.id = c.id)
        => /\ resp.status = 200
           /\ Len(resp.docs) = 1
           /\ resp.docs[1].title = c.payload.title
           /\ resp.docs[1].content =
                (IF c.payload.content = {} THEN "" ELSE The(c.payload.content))
           /\ resp.docs[1].tags =
                (IF c.payload.tags = {} THEN <<>> ELSE The(c.payload.tags))

\* C4 witness: the GET of a document created with tags, and of an id whose
\* payload had only a title, both still untouched.
C4_Witness ==
    /\ resp.op = "get"
    /\ resp.status = 200
    /\ \E c \in pristine : c.id = resp.id /\ c.payload.tags # {}
    /\ \E c \in pristine : c.id # resp.id /\ c.payload.content = {}

\* C5: no two stored documents share an id, a create returns an id that no
\* earlier create returned, and no step changes the id of a document that
\* stays stored (the ids change only by one removal or one append).
C5_IdsUniqueImmutable ==
    /\ \A i, j \in 1..Len(documents) :
         i # j => documents[i].id # documents[j].id
    /\ [][/\ \A i, j \in 1..Len(documents') :
               i # j => documents'[i].id # documents'[j].id
          /\ (resp'.op = "create" /\ resp'.status = 200) => resp'.id \notin issued
          /\ \/ IdsOf(documents') = IdsOf(documents)
             \/ \E k \in 1..Len(documents) :
                  IdsOf(documents') = RemoveAt(IdsOf(documents), k)
             \/ /\ Len(documents') = Len(documents) + 1
                /\ SubSeq(IdsOf(documents'), 1, Len(documents)) = IdsOf(documents)]_vars

\* C5 witness: a second create succeeded after the first document was deleted.
C5_Witness ==
    /\ resp.op = "create"
    /\ resp.status = 200
    /\ Len(documents) = 1
    /\ Cardinality(issued) = 2

\* C6 as stated: with any supplied category value GET /api/templates returns
\* exactly the stored templates of that category, by name ascending; with no
\* category it returns the whole collection, by name ascending.
C6_AnySuppliedCategoryFilters ==
    (resp.op = "templates" /\ resp.status = 200)
      => /\ \A x \in Range(templates) \cup Range(resp.tmpls) :
              Count(resp.tmpls, x) =
                (IF resp.category = {} \/ x.category = The(resp.category)
                 THEN Count(templates, x) ELSE 0)
         /\ \A i, j \in 1..Len(resp.tmpls) :
              i < j => FirstCodePoint(resp.tmpls[i].name)
                         <= FirstCodePoint(resp.tmpls[j].name)

\* C6 amended: with a non-empty category value GET /api/templates returns
\* exactly the stored templates of that category, by name ascending; with no
\* category or the empty string it returns the whole collection, by name
\* ascending.
C6_NonEmptyCategoryFilters ==
    (resp.op = "templates" /\ resp.status = 200)
      => /\ \A x \in Range(templates) \cup Range(resp.tmpls) :
              Count(resp.tmpls, x) =
                (IF resp.category \in {{}, {""}} \/ x.category = The(resp.category)
                 THEN Count(templates, x) ELSE 0)
         /\ \A i, j \in 1..Len(resp.tmpls) :
              i < j => FirstCodePoint(resp.tmpls[i].name)
                         <= FirstCodePoint(resp.tmpls[j].name)

\* C6 witness: the two academic templates out of the five stored, in name
\* order, which is not their stored order relative to the others.
C6_Witness ==
    /\ resp.op = "templates"
    /\ resp.status = 200
    /\ resp.category = {"academic"}
    /\ Len(templates) = 5
    /\ Len(resp.tmpls) = 2
    /\ resp.tmpls[1].id = "template_article"
    /\ resp.tmpls[2].id = "template_math"

\* C7: a chat request answered 200 gets the fixed message and the fixed three
\* suggestions, and its step appended exactly one ChatMessage with the
\* request's document_id and message, the supplied context or an empty
\* mapping, and the stringified fixed response, whether or not the document_id
\* names a stored document; a request whose insert fails is answered 500
\* without the fixed payload and stores nothing.
C7_ChatFixedAndPersisted ==
    [][resp'.op = "chat"
       => LET req == The(resp'.chat)
          IN  IF resp'.fault
              THEN /\ resp'.status = 500
                   /\ resp'.message = ""
                   /\ resp'.suggestions = <<>>
                   /\ chat_messages' = chat_messages
              ELSE /\ resp'.status = 200
                   /\ resp'.message =
                        "AI integration coming soon! This is a placeholder response."
                   /\ Len(resp'.suggestions) = 3
                   /\ resp'.suggestions = ChatResponse.suggestions
                   /\ Len(chat_messages') = Len(chat_messages) + 1
                   /\ SubSeq(chat_messages', 1, Len(chat_messages)) = chat_messages
                   /\ LET m == chat_messages'[Len(chat_messages')]
                      IN  /\ m.document_id = req.document_id
                          /\ m.message = req.message
                          /\ m.context = (IF req.context = {} THEN {}
                                          ELSE The(req.context))
                          /\ m.response = StrOfChatResponse
                          /\ m.response # resp'.message]_vars

\* C7 witness: a chat about a document id that is not stored, with a context,
\* answered 200 and stored.
C7_Witness ==
    /\ resp.op = "chat"
    /\ resp.status = 200
    /\ Len(chat_messages) = 1
    /\ FindOne(documents, The(resp.chat).document_id) = {}
    /\ The(resp.chat).context = {{<<"k", "v">>}}
    /\ chat_messages[1].context = {<<"k", "v">>}

\* True of orderings of the whole collection by created_at descending.
IsCreatedAtDesc(s) ==
    \A i, j \in 1..Len(s) : i < j => s[i].created_at >= s[j].created_at

\* C8: GET /api/documents with skip s and limit l returns positions s+1..s+l
\* of the whole collection ordered by created_at descending: at most l
\* records, in that order, fewer than l only when fewer than s+l are stored.
C8_ListIsWindowOfSorted ==
    (resp.op = "list" /\ resp.status = 200)
      => /\ Len(resp.docs) <= resp.limit
         /\ Len(resp.docs) =
              Min(resp.limit, Max(0, Len(documents) - resp.skip))
         /\ (Len(resp.docs) < resp.limit
               => Len(documents) < resp.skip + resp.limit)
         /\ IsCreatedAtDesc(resp.docs)
         /\ \E p \in Perms(documents) :
              /\ IsCreatedAtDesc(p)
              /\ resp.docs = SubSeq(p, resp.skip + 1, resp.skip + Len(resp.docs))

\* C8 witness: skip 1, limit 1 over two documents stored oldest first returns
\* the older one, whose updated_at is later than its created_at.
C8_Witness ==
    /\ resp.op = "list"
    /\ resp.status = 200
    /\ resp.skip = 1
    /\ resp.limit = 1
    /\ Len(documents) = 2
    /\ documents[1].created_at < documents[2].created_at
    /\ documents[1].created_at < documents[1].updated_at
    /\ resp.docs = <<documents[1]>>

\* Two requests were in flight together and the later-built document was
\* stored first: the stored order is not the created_at order.
StoredOutOfCreationOrder ==
    /\ Len(documents) = 2
    /\ documents[1].created_at > documents[2].created_at
    /\ documents[1].id > documents[2].id

\* C9 as stated: a failed connection or ping aborts startup before seeding and
\* serving, an index failure does not, and a started process has swallowed no
\* startup failure other than an index failure.
C9_OnlyIndexFailureSwallowed ==
    /\ (failures \cap {"connect", "ping"} # {} => phase = "aborted")
    /\ (phase = "aborted" => failures \cap {"connect", "ping", "count"} # {})
    /\ (phase \in {"connected", "serving"} => failures \subseteq {"index"})

\* C9 amended: a failed connection or ping aborts startup before seeding and
\* serving (nothing is seeded or served until the process is started again),
\* an index failure does not, and a started process has swallowed no startup
\* failure other than index failures and failed inserts of built-in templates.
C9_IndexAndInsertFailuresSwallowed ==
    /\ phase = "down" /\ failures = {}
    /\ [][/\ failures' \cap {"connect", "ping"} # {} => phase' = "aborted"
          /\ phase' = "aborted"
               => failures' \cap {"connect", "ping", "count"} # {}
          /\ phase' \in {"connected", "serving"}
               => failures' \subseteq {"index", "insert"}
          /\ phase = "aborted"
               => /\ phase' \in {"aborted", "down"}
                  /\ templates' = templates
                  /\ resp' = NoResp]_vars

\* C9 witness: a process serving after an index statement failed at startup.
C9_Witness ==
    /\ phase = "serving"
    /\ failures = {"index"}
    /\ "documents.id" \notin indexes
    /\ Len(templates) = 5

RECURSIVE InsertedOf(_)
\* The built-in templates a seeding log reports as inserted, in log order.
InsertedOf(log) ==
    IF log = <<>> THEN <<>>
    ELSE (IF Head(log).ok THEN <<BuiltinTemplates[Head(log).pos]>> ELSE <<>>)
           \o InsertedOf(Tail(log))

\* C10: a run of initialize_templates with no builtin-flagged template stored
\* (and a count query that answered) tries the five built-in inserts once each
\* in list order (academic, business, presentation, academic, business),
\* leaves exactly the successfully inserted ones appended to the collection,
\* and goes on to serve whatever inserts failed.
C10_SeedingTriesEveryInsert ==
    [][(/\ phase = "connected"
        /\ phase' # "connected"
        /\ CountBuiltin(templates) = 0
        /\ "count" \notin failures')
       => /\ phase' = "serving"
          /\ [i \in 1..Len(seedLog') |-> seedLog'[i].pos] = <<1, 2, 3, 4, 5>>
          /\ [i \in 1..5 |-> BuiltinTemplates[i].category] =
               <<"academic", "business", "presentation", "academic", "business">>
          /\ templates' = templates \o InsertedOf(seedLog')
          /\ \A i \in 1..5 :
               seedLog'[i].ok <=> (\E k \in 1..Len(templates') :
                                     templates'[k] = BuiltinTemplates[i])]_vars

\* C10 witness: the first and third inserts failed, the others were stored.
C10_Witness ==
    /\ phase = "serving"
    /\ Len(seedLog) = 5
    /\ ~seedLog[1].ok /\ seedLog[2].ok /\ ~seedLog[3].ok
    /\ seedLog[4].ok /\ seedLog[5].ok
    /\ [i \in 1..Len(templates) |-> templates[i].id] =
         <<"template_report", "template_math", "template_letter">>
====
